---- MODULE Spec2Model ----
(***************************************************************************)
(* Conversation orchestration and retrieval pipeline of THERAPY-BOT        *)
(* (tera-bot-api/functions/src/orquestador).                               *)
(*                                                                         *)
(* Each call is one Orquestador instance created by chat_agent_http for    *)
(* one request.  generate_response is a coroutine: every await is a point  *)
(* where another request's call may run, so each awaited step is one       *)
(* action.  The agents SDK (Runner.run, SQLiteSession, function_tool) and  *)
(* chromadb are libraries outside the repository; they are modelled by     *)
(* what the calls in the source ask of them.  The SDK version is not       *)
(* pinned anywhere in the repository, and its releases differ in when      *)
(* Runner.run writes a turn to the session (once, when the final output is *)
(* produced, or the input first and the generated items afterwards), so    *)
(* which of the two the installed release does is chosen in Init.          *)
(***************************************************************************)
EXTENDS Naturals, Sequences, FiniteSets, TLC

\* ---------------------------------------------------------------- bounds
MaxCalls == 2        \* requests (Orquestador instances) in one behaviour
MaxDocs == 4         \* documents the screenings collection can start with
MaxToolCalls == 1    \* retrieval-tool invocations in one behaviour
MaxInstances == 2    \* function instances serving create_user at the same time

Calls == 1..MaxCalls
Users == {"u1", "u2"}
Messages == {"hola"}
Queries == {"insomnio"}

\* Python's None and an optional value, as a sequence of length 0 or 1.
None == << >>
Some(x) == << x >>
Get(o) == o[1]

VARIABLES
    pc,             \* position of each call in generate_response
    user_id,        \* Orquestador.user_id
    message,        \* Orquestador.message
    history,        \* Orquestador.history: None or the SQLiteSession handle
    agent,          \* the Agent built by agentPsychology for the call
    input,          \* the session items Runner.run read when it prepared its input
    saved_input,    \* Runner.run has written the user input to the session
    new_items,      \* items Runner.run generated and has not written yet
    tool_calls,     \* number of invocations of the retrieval tool so far
    rag,            \* last store query of the turn: arguments and results
    tool_out,       \* last output the function tool handed to the runtime
    result,         \* RunResult.final_output once Runner.run has returned
    payload,        \* what generate_response returned
    escaped,        \* an exception left generate_response
    conversations,  \* conversations.db: session handle -> ordered items
    chroma,         \* the Chroma database: collection name -> documents
    chroma_up,      \* the Chroma keys are configured and the service answers
    input_first,    \* the installed runtime writes the input before the model runs
    request,        \* chat_agent_http: the request being served and its call
    response,       \* chat_agent_http: the last Response returned, with its request
    chroma_call,    \* the last call of the upload and maintenance code on ChromaService
    calendar,       \* Google Calendar 'primary': event id -> event
    citas,          \* Firestore collection 'citas': document id -> fields
    cita_response,  \* the last answer of an appointment endpoint, with its request
    firestore,      \* Firestore: users, pacientes, threads, sigsa, fichas_medicas
    patient_response, \* the last answer of a user or patient endpoint
    creating        \* create_user per instance: the user name its query did not find

\* The state of the services around the orchestrator.
httpVars == << request, response >>
citasVars == << calendar, citas, cita_response >>
patientVars == << firestore, patient_response, creating >>
serviceVars == << httpVars, chroma_call, citasVars, patientVars >>

vars == << pc, user_id, message, history, agent, input, saved_input, new_items,
           tool_calls, rag, tool_out, result, payload, escaped, conversations,
           chroma, chroma_up, input_first, serviceVars >>

callVars == << pc, user_id, message, history, agent, payload, escaped >>
runnerVars == << input, saved_input, new_items, rag, tool_out, result >>

\* The orchestrator's state apart from the knowledge store.
orquestadorVars == << callVars, runnerVars, tool_calls, conversations,
                      chroma_up, input_first >>

\* ------------------------------------------------------- pure operators

\* enums.py: ChromaCollections
EXAMENES_DE_SALUD_MENTAL == "mental_health_screenings"
TRANSTORNOS_DE_SALUD_MENTAL == "mental_health_disorders"

\* n_results passed by buscar_conocimiento_con_RAG
RagNResults == 3

RECURSIVE Join(_, _)
\* sep.join(xs)
Join(xs, sep) ==
    IF xs = << >> THEN ""
    ELSE IF Len(xs) = 1 THEN xs[1]
    ELSE xs[1] \o sep \o Join(Tail(xs), sep)

\* messages.py: session_id = f"session_{user_id}"
SessionIdMutant(uid) == "session_"
SessionId(uid) == "session_" \o uid

\* messages.py: SQLiteSession(session_id, "conversations.db").  The handle is
\* the pair the constructor receives; `owner` is the connection that owns the
\* database when it is an in-memory one (there it is 0: the file is shared).
CreateAndGetSessionIdMutant(c, uid) ==
    [session_id |-> SessionId(uid), db_path |-> ":memory:", owner |-> c]
CreateAndGetSessionId(c, uid) ==
    [session_id |-> SessionId(uid), db_path |-> "conversations.db", owner |-> 0]

\* SQLiteSession.get_items(): every item of the session, oldest first.
ItemsOf(h) == IF h \in DOMAIN conversations THEN conversations[h] ELSE << >>

\* SQLiteSession.add_items(items): appended after the stored items.
AddItemsMutant(db, h, items) ==
    IF h \in DOMAIN db THEN [db EXCEPT ![h] = items \o @] ELSE db @@ (h :> items)
AddItems(db, h, items) ==
    IF h \in DOMAIN db THEN [db EXCEPT ![h] = @ \o items] ELSE db @@ (h :> items)

Item(role, content, c) == [role |-> role, content |-> content, turn |-> c]

\* ------------------------------------------------------------ knowledge store

\* A stored record: id, text and metadata, as the upload script writes them
\* (prepare_screening_documents).
DocText(i) == "doc" \o ToString(i)
SeedMetadata == [version |-> "1"]
Docs(k) == { [id |-> i, document |-> DocText(i), metadata |-> SeedMetadata] : i \in 1..k }

\* client.get_or_create_collection(name=...)
GetOrCreateCollection(store, name) ==
    IF name \in DOMAIN store THEN store ELSE store @@ (name :> {})

\* Distance of a document from a query text.  The embedding is the store's
\* business; what matters here is that the ranking is not the order of the
\* ids: the later documents are the nearer ones.
Distance(query_text, doc) == (MaxDocs + 2) - doc.id

RECURSIVE Nearest(_, _, _)
\* The n documents of coll nearest to query_text, nearest first.
Nearest(coll, query_text, n) ==
    IF n = 0 \/ coll = {} THEN << >>
    ELSE LET d == CHOOSE x \in coll :
                    \A y \in coll : Distance(query_text, x) <= Distance(query_text, y)
         IN  << d >> \o Nearest(coll \ {d}, query_text, n - 1)

\* collection.query(query_texts, n_results, include=[...])["documents"]: one
\* list per query text, each with at most n_results documents.
CollectionQuery(coll, query_texts, n_results) ==
    [q \in 1..Len(query_texts) |->
        LET r == Nearest(coll, query_texts[q], n_results)
        IN  [i \in 1..Len(r) |-> r[i].document]]

\* buscar_conocimiento_con_RAG, lines 31-34: the text built from the results.
FormatResults(documents) ==
    IF documents # << >>
    THEN "Información encontrada:\n" \o Join(documents[1], "\n\n")
    ELSE "No se encontró información relevante."

\* buscar_conocimiento_con_RAG, lines 22-26: the arguments of the store query.
RagQueryMutant(query) ==
    [name_collection |-> EXAMENES_DE_SALUD_MENTAL,
     query_texts |-> << query >>,
     n_results |-> RagNResults + 2]
RagQuery(query) ==
    [name_collection |-> EXAMENES_DE_SALUD_MENTAL,
     query_texts |-> << query >>,
     n_results |-> RagNResults]

\* function_tool(...) without failure_error_function: an exception of the tool
\* body becomes this tool output, and the run goes on.
ToolErrorText == "An error occurred while running the tool. Please try again."

\* ------------------------------------------------------------ agent

\* agente_examenes_salud_mental.py, lines 48-55: the screenings responder
AgenteDeExamenesSaludMental ==
    [name |-> "AgenteDeExamenesDeSaludMental",
     tools |-> << "buscar_conocimiento_con_RAG" >>]

\* agente_principal.py, lines 68-78.  Of the three responders whose modules
\* are not in the tree only the name and the place in the list are known.
AgentPsychologyMutant ==
    [name |-> "TerapyBot",
     model |-> "gpt-5-mini",
     instructions |-> "SYSTEM_PROMPT",
     handoffs |-> << [agent |-> "agente_de_respuestas_salud_mental", handoff |-> TRUE],
                     [agent |-> "agente_de_salud_mental_coloquial", handoff |-> TRUE],
                     [agent |-> "AgenteDeExamenesDeSaludMental", handoff |-> TRUE,
                      tools |-> AgenteDeExamenesSaludMental.tools] >>]
AgentPsychology ==
    [name |-> "TerapyBot",
     model |-> "gpt-5-mini",
     instructions |-> "SYSTEM_PROMPT",
     handoffs |-> << [agent |-> "agente_de_respuestas_salud_mental", handoff |-> FALSE],
                     [agent |-> "agente_de_salud_mental_coloquial", handoff |-> TRUE],
                     [agent |-> "agente_de_transtornos_salud_mental", handoff |-> TRUE],
                     [agent |-> "AgenteDeExamenesDeSaludMental", handoff |-> TRUE,
                      tools |-> AgenteDeExamenesSaludMental.tools] >>]

\* ------------------------------------------------------------ initial state

InitialStores ==
    { (TRANSTORNOS_DE_SALUD_MENTAL :> Docs(1)) }
    \cup { (TRANSTORNOS_DE_SALUD_MENTAL :> Docs(1)) @@ (EXAMENES_DE_SALUD_MENTAL :> Docs(k)) :
             k \in {0, MaxDocs - 2, MaxDocs} }

Init ==
    /\ pc = [c \in Calls |-> "idle"]
    /\ user_id = [c \in Calls |-> ""]
    /\ message = [c \in Calls |-> ""]
    /\ history = [c \in Calls |-> None]
    /\ agent = [c \in Calls |-> None]
    /\ input = [c \in Calls |-> None]
    /\ saved_input = [c \in Calls |-> FALSE]
    /\ new_items = [c \in Calls |-> << >>]
    /\ tool_calls = 0
    /\ rag = [c \in Calls |-> None]
    /\ tool_out = [c \in Calls |-> None]
    /\ result = [c \in Calls |-> None]
    /\ payload = [c \in Calls |-> << >>]
    /\ escaped = [c \in Calls |-> FALSE]
    /\ conversations = << >>
    /\ chroma \in InitialStores
    /\ chroma_up \in BOOLEAN
    /\ input_first \in BOOLEAN
    /\ request = None
    /\ response = None
    /\ chroma_call = None
    /\ calendar = << >>
    /\ citas = << >>
    /\ cita_response = None
    /\ firestore = [users |-> << >>, pacientes |-> << >>, threads |-> << >>,
                    sigsa |-> << >>, fichas_medicas |-> << >>]
    /\ patient_response = None
    /\ creating = [i \in 1..MaxInstances |-> None]

\* ------------------------------------------------------------ generate_response

Terminal(c) == pc[c] \in {"TurnComplete", "TurnFailed"}

\* chat_agent_http, lines 58-62: Orquestador(user_id=..., message=...).
\* Requests are numbered in the order they arrive, and user ids are
\* interchangeable: the first request is u1's, and u2 is any other user.
Orquestador(c, u, m) ==
    /\ pc[c] = "idle"
    /\ \A d \in Calls : d < c => pc[d] # "idle"
    /\ c = 1 => u = "u1"
    /\ pc' = [pc EXCEPT ![c] = "NoSession"]
    /\ user_id' = [user_id EXCEPT ![c] = u]
    /\ message' = [message EXCEPT ![c] = m]
    /\ UNCHANGED << history, agent, payload, escaped, runnerVars,
                    tool_calls, conversations, chroma, chroma_up, input_first >>

\* generate_response returns: the locals of the call and of Runner.run are gone.
ReturnLocals(c) ==
    /\ input' = [input EXCEPT ![c] = None]
    /\ saved_input' = [saved_input EXCEPT ![c] = FALSE]
    /\ new_items' = [new_items EXCEPT ![c] = << >>]
    /\ rag' = [rag EXCEPT ![c] = None]
    /\ tool_out' = [tool_out EXCEPT ![c] = None]
    /\ result' = [result EXCEPT ![c] = None]

\* generate_response, lines 64-66: except Exception as e.
ExceptMutant(c, e) ==
    /\ pc' = [pc EXCEPT ![c] = "TurnFailed"]
    /\ payload' = [payload EXCEPT ![c] = << >>]
    /\ escaped' = [escaped EXCEPT ![c] = TRUE]
Except(c, e) ==
    /\ pc' = [pc EXCEPT ![c] = "TurnFailed"]
    /\ payload' = [payload EXCEPT ![c] =
                      [error |-> "Error procesando la solicitud: " \o e]]
    /\ escaped' = [escaped EXCEPT ![c] = FALSE]

\* generate_response, lines 35-37, and _create_history_session
CreateHistorySession(c) ==
    /\ pc[c] = "NoSession"
    /\ history[c] = None
    /\ history' = [history EXCEPT ![c] = Some(CreateAndGetSessionId(c, user_id[c]))]
    /\ pc' = [pc EXCEPT ![c] = "SessionReady"]
    /\ UNCHANGED << user_id, message, agent, payload, escaped, runnerVars,
                    tool_calls, conversations, chroma, chroma_up, input_first, serviceVars >>

\* _create_history_session, lines 80-82: the session cannot be opened.
CreateHistorySessionRaises(c) ==
    /\ pc[c] = "NoSession"
    /\ Except(c, "unable to open database file")
    /\ UNCHANGED << user_id, message, history, agent, runnerVars,
                    tool_calls, conversations, chroma, chroma_up, input_first, serviceVars >>

\* generate_response, lines 42-46: agentPsychology receives the user id and
\* the message and uses them for its log lines only.
AssembleAgentMutant(c) ==
    /\ pc[c] = "SessionReady"
    /\ agent' = [agent EXCEPT ![c] =
                    Some([AgentPsychology EXCEPT !.instructions = @ \o " " \o user_id[c]])]
    /\ pc' = [pc EXCEPT ![c] = "AgentAssembled"]
    /\ UNCHANGED << user_id, message, history, payload, escaped, runnerVars,
                    tool_calls, conversations, chroma, chroma_up, input_first, serviceVars >>
AssembleAgent(c) ==
    /\ pc[c] = "SessionReady"
    /\ agent' = [agent EXCEPT ![c] = Some(AgentPsychology)]
    /\ pc' = [pc EXCEPT ![c] = "AgentAssembled"]
    /\ UNCHANGED << user_id, message, history, payload, escaped, runnerVars,
                    tool_calls, conversations, chroma, chroma_up, input_first, serviceVars >>

\* agentPsychology, lines 83-86: raise RuntimeError(error_msg)
AssembleAgentRaises(c) ==
    /\ pc[c] = "SessionReady"
    /\ Except(c, "Error al procesar mensaje: agent")
    /\ UNCHANGED << user_id, message, history, agent, runnerVars,
                    tool_calls, conversations, chroma, chroma_up, input_first, serviceVars >>

\* ------------------------------------------------------------ retrieval tool

\* ChromaService._create_client, lines 59-73: raises when the keys are missing
\* or the cloud client cannot be built.
CreateClientRaises(up) == ~up

\* ChromaService.query, lines 171-184: the outcomes of one call, each with the
\* store it leaves and the documents it returns.
ChromaQuery(store, up, name_collection, query_texts, n_results) ==
    IF CreateClientRaises(up)
    THEN { [raised |-> TRUE, store |-> store, documents |-> << >>] }
    ELSE LET created == GetOrCreateCollection(store, name_collection)
             coll == IF name_collection \in DOMAIN created
                     THEN created[name_collection] ELSE {}
         IN  { [raised |-> FALSE, store |-> created,
                 documents |-> CollectionQuery(coll, query_texts, n_results)] }

\* buscar_conocimiento_con_RAG, lines 21-34
BuscarConocimientoConRAG(store, up, query) ==
    LET q == RagQuery(query)
    IN  { [raised |-> o.raised, store |-> o.store, query |-> q,
           documents |-> o.documents,
           output |-> IF o.raised THEN "" ELSE FormatResults(o.documents)] :
            o \in ChromaQuery(store, up, q.name_collection, q.query_texts, q.n_results) }

\* agente_examenes_salud_mental.py, line 9: the function_tool wrapper hands the
\* runtime the tool's return value, or the error text when the body raised.
FunctionToolOutput(o) == IF o.raised THEN ToolErrorText ELSE o.output

\* ------------------------------------------------------------ Runner.run

Running(c) == pc[c] = "TurnRunning" /\ result[c] = None

UserItem(c) == Item("user", message[c], c)

\* generate_response, lines 49-53: Runner.run starts and reads the session to
\* prepare the model input.
RunnerPrepareInputMutant(c) ==
    /\ pc[c] \in {"SessionReady", "AgentAssembled"}
    /\ input' = [input EXCEPT ![c] = Some(ItemsOf(Get(history[c])))]
    /\ pc' = [pc EXCEPT ![c] = "TurnRunning"]
    /\ UNCHANGED << user_id, message, history, agent, payload, escaped,
                    saved_input, new_items, rag, tool_out, result,
                    tool_calls, conversations, chroma, chroma_up, input_first, serviceVars >>
RunnerPrepareInput(c) ==
    /\ pc[c] = "AgentAssembled"
    /\ input' = [input EXCEPT ![c] = Some(ItemsOf(Get(history[c])))]
    /\ pc' = [pc EXCEPT ![c] = "TurnRunning"]
    /\ UNCHANGED << user_id, message, history, agent, payload, escaped,
                    saved_input, new_items, rag, tool_out, result,
                    tool_calls, conversations, chroma, chroma_up, input_first, serviceVars >>

\* Runner.run with session=self.history: the user input is written before the
\* model is called (releases that save the input first).
RunnerSaveInput(c) ==
    /\ Running(c)
    /\ input_first
    /\ ~saved_input[c]
    /\ conversations' = AddItems(conversations, Get(history[c]), << UserItem(c) >>)
    /\ saved_input' = [saved_input EXCEPT ![c] = TRUE]
    /\ UNCHANGED << callVars, input, new_items, rag, tool_out, result,
                    tool_calls, chroma, chroma_up, input_first, serviceVars >>

\* The screenings responder calls buscar_conocimiento_con_RAG(query).  The
\* tool's output is an item of the turn: a runtime that
\* has written the input writes the item when the model turn ends, one that
\* writes once keeps it for the end.
RunnerToolCall(c, query) ==
    /\ Running(c)
    /\ input_first => saved_input[c]
    /\ tool_calls < MaxToolCalls
    /\ \E o \in BuscarConocimientoConRAG(chroma, chroma_up, query) :
          LET item == Item("tool", FunctionToolOutput(o), c)
          IN  /\ chroma' = o.store
              /\ rag' = [rag EXCEPT ![c] =
                           Some([query |-> o.query, raised |-> o.raised,
                                 documents |-> o.documents])]
              /\ tool_out' = [tool_out EXCEPT ![c] = Some(FunctionToolOutput(o))]
              /\ IF saved_input[c]
                 THEN /\ conversations' =
                            AddItems(conversations, Get(history[c]), << item >>)
                      /\ UNCHANGED new_items
                 ELSE /\ new_items' = [new_items EXCEPT ![c] = Append(@, item)]
                      /\ UNCHANGED conversations
    /\ tool_calls' = tool_calls + 1
    /\ UNCHANGED << callVars, input, saved_input, result, chroma_up, input_first, serviceVars >>

FinalOutput == "respuesta"

\* Runner.run produces the final output, writes what is not yet in the
\* session and returns (generate_response, line 49).
RunnerFinalOutput(c) ==
    /\ Running(c)
    /\ input_first => saved_input[c]
    /\ LET unsaved == (IF saved_input[c] THEN << >> ELSE << UserItem(c) >>)
                      \o new_items[c] \o << Item("assistant", FinalOutput, c) >>
       IN  conversations' = AddItems(conversations, Get(history[c]), unsaved)
    /\ saved_input' = [saved_input EXCEPT ![c] = TRUE]
    /\ new_items' = [new_items EXCEPT ![c] = << >>]
    /\ result' = [result EXCEPT ![c] = Some(FinalOutput)]
    /\ UNCHANGED << callVars, input, rag, tool_out, tool_calls, chroma, chroma_up, input_first, serviceVars >>

\* Runner.run raises (model call failed, turn limit, session write failed).
RunnerRaises(c) ==
    /\ Running(c)
    /\ Except(c, "runner")
    /\ ReturnLocals(c)
    /\ UNCHANGED << user_id, message, history, agent, tool_calls, conversations, chroma, chroma_up, input_first, serviceVars >>

\* _get_all_history, lines 91-97
AllHistoryMutant(c) == Get(input[c])
AllHistory(c) ==
    IF history[c] = None THEN << >> ELSE ItemsOf(Get(history[c]))

\* generate_response, lines 56-62
GetAllHistory(c) ==
    /\ pc[c] = "TurnRunning"
    /\ result[c] # None
    /\ payload' = [payload EXCEPT ![c] =
                      [respuesta |-> Get(result[c]), historial |-> AllHistory(c)]]
    /\ pc' = [pc EXCEPT ![c] = "TurnComplete"]
    /\ ReturnLocals(c)
    /\ UNCHANGED << user_id, message, history, agent, escaped,
                    tool_calls, conversations, chroma, chroma_up, input_first, serviceVars >>

\* generate_response, line 56: get_items raises.
GetAllHistoryRaises(c) ==
    /\ pc[c] = "TurnRunning"
    /\ result[c] # None
    /\ Except(c, "history")
    /\ ReturnLocals(c)
    /\ UNCHANGED << user_id, message, history, agent, tool_calls, conversations, chroma, chroma_up, input_first, serviceVars >>

\* ------------------------------------------------------------ ChromaService

Range(f) == { f[i] : i \in DOMAIN f }

\* chromadb's validation of a record set (collection.add, collection.upsert):
\* ids, documents and metadatas of one length, not empty, no id twice.
ValidRecordSet(ids, texts, metadatas) ==
    /\ Len(ids) > 0
    /\ Len(texts) = Len(ids)
    /\ Len(metadatas) = Len(ids)
    /\ \A i, j \in 1..Len(ids) : ids[i] = ids[j] => i = j

RecordSet(ids, texts, metadatas) ==
    { [id |-> ids[i], document |-> texts[i], metadata |-> metadatas[i]] :
        i \in 1..Len(ids) }

\* collection.upsert: a record whose id is stored replaces the stored one.
CollectionUpsertMutant(coll, ids, texts, metadatas) ==
    coll \cup RecordSet(ids, texts, metadatas)
CollectionUpsert(coll, ids, texts, metadatas) ==
    { d \in coll : d.id \notin Range(ids) } \cup RecordSet(ids, texts, metadatas)

\* collection.add: a record whose id is stored is not written.
CollectionAdd(coll, ids, texts, metadatas) ==
    coll \cup { r \in RecordSet(ids, texts, metadatas) :
                  \A d \in coll : d.id # r.id }

\* What one call on the service did: it raised or returned, the store it
\* left, whether it asked for a client, and the documents a query returned.
Outcome(raised, store, client, documents) ==
    [raised |-> raised, store |-> store, client |-> client, documents |-> documents]

\* ChromaService.upsert_texts, lines 149-153
UpsertTextsMutant(store, up, texts, name_collection, metadatas, ids) ==
    IF CreateClientRaises(up) THEN { Outcome(TRUE, store, TRUE, << >>) }
    ELSE { Outcome(FALSE, GetOrCreateCollection(store, name_collection), TRUE, << >>) }
UpsertTexts(store, up, texts, name_collection, metadatas, ids) ==
    IF texts = << >> THEN { Outcome(FALSE, store, FALSE, << >>) }
    ELSE IF CreateClientRaises(up) THEN { Outcome(TRUE, store, TRUE, << >>) }
    ELSE LET created == GetOrCreateCollection(store, name_collection)
         IN  IF ~ValidRecordSet(ids, texts, metadatas)
             THEN { Outcome(TRUE, created, TRUE, << >>) }
             ELSE { Outcome(FALSE,
                            [created EXCEPT ![name_collection] =
                                CollectionUpsert(@, ids, texts, metadatas)],
                            TRUE, << >>) }

\* ChromaService.add_texts, lines 128-131.  A stored id makes collection.add
\* skip the record or raise, depending on the chromadb release.
AddTexts(store, up, texts, name_collection, metadatas, ids) ==
    IF texts = << >> THEN { Outcome(FALSE, store, FALSE, << >>) }
    ELSE IF CreateClientRaises(up) THEN { Outcome(TRUE, store, TRUE, << >>) }
    ELSE LET created == GetOrCreateCollection(store, name_collection)
             stored == \E d \in created[name_collection] : d.id \in Range(ids)
         IN  IF ~ValidRecordSet(ids, texts, metadatas)
             THEN { Outcome(TRUE, created, TRUE, << >>) }
             ELSE { Outcome(FALSE,
                            [created EXCEPT ![name_collection] =
                                CollectionAdd(@, ids, texts, metadatas)],
                            TRUE, << >>) }
                  \cup (IF stored THEN { Outcome(TRUE, created, TRUE, << >>) } ELSE {})

\* client.delete_collection(name): raises when there is no such collection.
DeleteCollection(store, name) ==
    [n \in DOMAIN store \ {name} |-> store[n]]

\* ChromaService.reset_collection, lines 194-195
ResetCollection(store, up, name_collection) ==
    IF CreateClientRaises(up) THEN { Outcome(TRUE, store, TRUE, << >>) }
    ELSE IF name_collection \notin DOMAIN store
    THEN { Outcome(TRUE, store, TRUE, << >>) }
    ELSE { Outcome(FALSE,
                   GetOrCreateCollection(DeleteCollection(store, name_collection),
                                         name_collection),
                   TRUE, << >>) }

\* ChromaService.query, as the upload and maintenance code calls it
ServiceQuery(store, up, name_collection, query_texts, n_results) ==
    { Outcome(o.raised, o.store, TRUE, o.documents) :
        o \in ChromaQuery(store, up, name_collection, query_texts, n_results) }

\* The record sets the calls are made with: up to two ids, texts and
\* metadatas, of equal or unequal lengths, an id possibly twice.
UploadIds == { << >>, << 1 >>, << 2 >>, << 1, 2 >>, << 1, 1 >> }
UploadTexts == { << >>, << "t1" >>, << "t2" >>, << "t1", "t2" >> }
UploadMetadata == [version |-> "2"]
UploadMetadatas == { << >>, << UploadMetadata >>, << UploadMetadata, UploadMetadata >> }
CollectionNames == { EXAMENES_DE_SALUD_MENTAL, TRANSTORNOS_DE_SALUD_MENTAL }

Called(op, name_collection, texts, metadatas, ids, o) ==
    /\ chroma' = o.store
    /\ chroma_call' = Some([op |-> op, name_collection |-> name_collection,
                            texts |-> texts, metadatas |-> metadatas, ids |-> ids,
                            raised |-> o.raised, client |-> o.client,
                            documents |-> o.documents])
    /\ UNCHANGED << orquestadorVars, httpVars, citasVars, patientVars >>

UpsertTextsCall(texts, name_collection, metadatas, ids) ==
    \E o \in UpsertTexts(chroma, chroma_up, texts, name_collection, metadatas, ids) :
        Called("upsert_texts", name_collection, texts, metadatas, ids, o)

AddTextsCall(texts, name_collection, metadatas, ids) ==
    \E o \in AddTexts(chroma, chroma_up, texts, name_collection, metadatas, ids) :
        Called("add_texts", name_collection, texts, metadatas, ids, o)

QueryCall(name_collection, query_texts, n_results) ==
    \E o \in ServiceQuery(chroma, chroma_up, name_collection, query_texts, n_results) :
        Called("query", name_collection, query_texts, << >>, << >>, o)

ResetCollectionCall(name_collection) ==
    \E o \in ResetCollection(chroma, chroma_up, name_collection) :
        Called("reset_collection", name_collection, << >>, << >>, << >>, o)

\* ------------------------------------------------------------ appointments

EventIds == {"e1", "e2"}
EventNames == {"a", "b"}

\* dict(**old, **new) and Firestore's set(data, merge=True) on the fields of a
\* document: the new fields win, the others stay.
Merge(new, old) == new @@ old

\* A collection or calendar with the entry id set to value / without it.
Put(col, id, value) ==
    [i \in DOMAIN col \cup {id} |-> IF i = id THEN value ELSE col[i]]
Remove(col, id) == [i \in DOMAIN col \ {id} |-> col[i]]

\* The id events().insert gives a new event: one never seen in either store.
FreshIds == EventIds \ (DOMAIN calendar \cup DOMAIN citas)

\* document(id).set(data, merge=True): the document is created when there is
\* none.
SetMerge(col, id, data) ==
    Put(col, id, IF id \in DOMAIN col THEN Merge(data, col[id]) ELSE data)

\* FirestoreCitasRepository.actualizar_evento, lines 76-86: set, then get, then
\* the test of doc.exists.
ActualizarEvento(col, id_evento, data) ==
    LET written == SetMerge(col, id_evento, data)
    IN  IF id_evento \notin DOMAIN written
        THEN [raised |-> TRUE, error |-> "El evento no existe en Firestore.", col |-> written]
        ELSE [raised |-> FALSE, error |-> "", col |-> written]

\* _json_response of the three endpoints
CitaAnswer(op, id_evento, status, error) ==
    Some([op |-> op, id_evento |-> id_evento, status |-> status,
          success |-> (status = 200), error |-> error])

\* An external call (Calendar API, Firestore) answers, or fails.
ApiOutcomes == {"ok", "HttpError", "raises"}
FirestoreOutcomes == {"ok", "raises"}

\* CitasConsultorioService.crear_cita, lines 117-170, behind crear_cita
\* (lines 259-274).  crear_evento answers {"error": ...} on HttpError, which has
\* no id.
CrearCita(uid, nombre_evento, gc, fs) ==
    IF uid = "" \/ nombre_evento = ""
    THEN /\ cita_response' = CitaAnswer("crear_cita", "", 500, "Faltan campos requeridos.")
         /\ UNCHANGED << calendar, citas >>
    ELSE IF gc = "raises"
    THEN /\ cita_response' = CitaAnswer("crear_cita", "", 500, "calendar")
         /\ UNCHANGED << calendar, citas >>
    ELSE IF gc = "HttpError"
    THEN /\ cita_response' = CitaAnswer("crear_cita", "", 500,
                                "No se recibió un id del evento de Google Calendar.")
         /\ UNCHANGED << calendar, citas >>
    ELSE \E id \in FreshIds :
           /\ calendar' = Put(calendar, id, [summary |-> nombre_evento, status |-> "confirmed"])
           /\ IF fs = "raises"
              THEN /\ cita_response' = CitaAnswer("crear_cita", id, 500, "firestore")
                   /\ UNCHANGED citas
              ELSE /\ citas' = SetMerge(citas, id,
                                  [id_paciente |-> uid, nombre_evento |-> nombre_evento,
                                   google_event_id |-> id, status |-> "CONFIRMED"])
                   /\ cita_response' = CitaAnswer("crear_cita", id, 200, "")

\* CitasConsultorioService.actualizar_cita, lines 172-217, behind
\* actualizar_cita (lines 277-291).  actualizar_evento answers {"error": ...}
\* on HttpError (no such event among them), and the Firestore write follows.
ActualizarCita(id_evento, nombre_evento, gc, fs) ==
    IF id_evento = "" \/ nombre_evento = ""
    THEN /\ cita_response' = CitaAnswer("actualizar_cita", id_evento, 500,
                                "Faltan campos requeridos.")
         /\ UNCHANGED << calendar, citas >>
    ELSE IF gc = "raises"
    THEN /\ cita_response' = CitaAnswer("actualizar_cita", id_evento, 500, "calendar")
         /\ UNCHANGED << calendar, citas >>
    ELSE LET found == gc = "ok" /\ id_evento \in DOMAIN calendar
             status == IF found THEN calendar[id_evento].status ELSE "CONFIRMED"
             o == ActualizarEvento(citas, id_evento,
                                   [nombre_evento |-> nombre_evento, status |-> status])
         IN  /\ calendar' = IF found
                            THEN Put(calendar, id_evento,
                                     [calendar[id_evento] EXCEPT !.summary = nombre_evento])
                            ELSE calendar
             /\ IF fs = "raises"
                THEN /\ cita_response' = CitaAnswer("actualizar_cita", id_evento, 500, "firestore")
                     /\ UNCHANGED citas
                ELSE /\ citas' = o.col
                     /\ cita_response' =
                           IF o.raised
                           THEN CitaAnswer("actualizar_cita", id_evento, 500, o.error)
                           ELSE CitaAnswer("actualizar_cita", id_evento, 200, "")

\* CitasConsultorioService.eliminar_cita, lines 219-230, behind eliminar_cita
\* (lines 319-337).  eliminar_evento answers False on HttpError, and the
\* answer is not read.
EliminarCita(id_evento, gc, fs) ==
    IF id_evento = ""
    THEN /\ cita_response' = CitaAnswer("eliminar_cita", id_evento, 400,
                                "Faltan campos requeridos.")
         /\ UNCHANGED << calendar, citas >>
    ELSE IF gc = "raises"
    THEN /\ cita_response' = CitaAnswer("eliminar_cita", id_evento, 500, "calendar")
         /\ UNCHANGED << calendar, citas >>
    ELSE /\ calendar' = IF gc = "ok" /\ id_evento \in DOMAIN calendar
                        THEN Remove(calendar, id_evento)
                        ELSE calendar
         /\ IF fs = "raises"
            THEN /\ cita_response' = CitaAnswer("eliminar_cita", id_evento, 500, "firestore")
                 /\ UNCHANGED citas
            ELSE /\ citas' = Remove(citas, id_evento)
                 /\ cita_response' = CitaAnswer("eliminar_cita", id_evento, 200, "")

CitasFrame ==
    UNCHANGED << orquestadorVars, chroma, httpVars, chroma_call, patientVars >>

CrearCitaConsultorio(uid, nombre_evento, gc, fs) ==
    CrearCita(uid, nombre_evento, gc, fs) /\ CitasFrame

ActualizarCitaConsultorio(id_evento, nombre_evento, gc, fs) ==
    ActualizarCita(id_evento, nombre_evento, gc, fs) /\ CitasFrame

EliminarCitaConsultorio(id_evento, gc, fs) ==
    EliminarCita(id_evento, gc, fs) /\ CitasFrame

\* ------------------------------------------------------------ users and patients

Uids == {"p1", "p2"}
Usuarios == {"ana", "luis"}

\* Field values of a Firestore document: text, a null, a server timestamp, a
\* document reference.
Str(v) == [type |-> "str", v |-> v]
Null == [type |-> "null", v |-> ""]
Timestamp == [type |-> "timestamp", v |-> "2025-01-01T00:00:00"]
Ref(collection, id) == [type |-> "reference", v |-> collection \o "/" \o id]

\* PatientService._to_json_safe, lines 17-45, on a field value and on a
\* document: a timestamp becomes its ISO text, a reference its path.
ToJsonSafeValue(x) ==
    IF x.type \in {"timestamp", "reference"} THEN Str(x.v) ELSE x
ToJsonSafe(doc) == [k \in DOMAIN doc |-> ToJsonSafeValue(doc[k])]

\* The keyword parameters of the model constructors
PacienteParams ==
    {"uid", "nombre", "apellido", "fecha_consulta", "estado_paciente",
     "motivo_consulta", "thread", "ref_sigsa", "ref_ficha_medica"}
SigsaParams ==
    {"uid", "fecha_consulta", "nombre", "apellido", "cui", "fecha_nacimiento",
     "edad", "ninio_menor_15", "adulto", "genero", "municipio", "aldea",
     "embarazo", "consulta", "diagnostico", "cie_10", "created", "tratamiento",
     "estado_paciente", "no_historia_clinica", "terapia"}
FichaMedicaParams ==
    {"uid", "cui", "edad", "ocupacion", "escolaridad", "municipio", "aldea",
     "estado_civil", "paciente_referido", "genero", "patologia", "cei10",
     "tipo_consulta", "tipo_terapia", "embarazo"}

\* Model(**data): an unexpected keyword argument raises TypeError.
Accepts(params, data) == DOMAIN data \subseteq params

\* Model(...).__dict__: every parameter, None where none was given.
ModelDict(params, given) ==
    [k \in params |-> IF k \in DOMAIN given THEN given[k] ELSE Null]

\* create_user, lines 94-113: the three documents of the batch.
UserDoc(usuario, contrasenia, id) ==
    [usuario |-> Str(usuario), contrasenia |-> Str(contrasenia), admin |-> Str("False"),
     fecha_creacion |-> Timestamp, ref_paciente |-> Ref("pacientes", id)]
PacienteDoc(usuario, id) ==
    [fecha_creacion |-> Timestamp, user_name |-> Str(usuario),
     estado_paciente |-> Str("pendiente"), thread |-> Ref("threads", id)]
ThreadDoc(id) ==
    [fecha_creacion |-> Timestamp, ref_paciente |-> Ref("pacientes", id),
     thread_id |-> Str(id)]

\* create_user, line 88: users.document() makes up an id no document has.
NewDocumentIds(db) ==
    Uids \ (DOMAIN db.users \cup DOMAIN db.pacientes \cup DOMAIN db.threads)

\* create_user, lines 93-116: the three set() of the batch and its commit,
\* which Firestore applies as one write.
BatchCommitMutant(db, usuario, contrasenia, id) ==
    [db EXCEPT
        !.users = Put(@, id, UserDoc(usuario, contrasenia, id)),
        !.pacientes = Put(@, id, PacienteDoc(usuario, id))]
BatchCommit(db, usuario, contrasenia, id) ==
    [db EXCEPT
        !.users = Put(@, id, UserDoc(usuario, contrasenia, id)),
        !.pacientes = Put(@, id, PacienteDoc(usuario, id)),
        !.threads = Put(@, id, ThreadDoc(id))]

PatientAnswer(op, status, data) ==
    Some([op |-> op, status |-> status, success |-> (status \in {200, 201}), data |-> data])

PatientFrame ==
    UNCHANGED << orquestadorVars, chroma, httpVars, chroma_call, citasVars, creating >>

\* The frame of a step of create_user on one of the instances.
InstanceFrame ==
    UNCHANGED << orquestadorVars, chroma, httpVars, chroma_call, citasVars >>

\* create_user_http and create_user (create_user.py, lines 10-126).  The id is
\* the one users.document() makes up; the three writes are one batch.
CreateUser(usuario, contrasenia, fs) ==
    /\ IF contrasenia = "" \/ usuario = ""
       THEN /\ patient_response' = PatientAnswer("create_user", 400, << >>)
            /\ UNCHANGED firestore
       ELSE IF fs = "raises"
       THEN /\ patient_response' = PatientAnswer("create_user", 500, << >>)
            /\ UNCHANGED firestore
       ELSE IF \E u \in DOMAIN firestore.users : firestore.users[u].usuario = Str(usuario)
       THEN /\ patient_response' = PatientAnswer("create_user", 500, << >>)
            /\ UNCHANGED firestore
       ELSE \E id \in NewDocumentIds(firestore) :
              /\ firestore' = BatchCommit(firestore, usuario, contrasenia, id)
              /\ patient_response' = PatientAnswer("create_user", 201, << id >>)
    /\ PatientFrame

\* create_user_http, lines 11-38, and create_user, lines 79-85, on instance i:
\* the fields are checked and 'users' is queried for the name.  When no
\* document has it the function goes on to build its batch.
CreateUserQuery(i, usuario, contrasenia, fs) ==
    /\ creating[i] = None
    /\ IF contrasenia = "" \/ usuario = ""
       THEN /\ patient_response' = PatientAnswer("create_user", 400, << >>)
            /\ UNCHANGED creating
       ELSE IF fs = "raises"
       THEN /\ patient_response' = PatientAnswer("create_user", 500, << >>)
            /\ UNCHANGED creating
       ELSE IF \E u \in DOMAIN firestore.users : firestore.users[u].usuario = Str(usuario)
       THEN /\ patient_response' = PatientAnswer("create_user", 500, << "Usuario ya existe" >>)
            /\ UNCHANGED creating
       ELSE /\ creating' = [creating EXCEPT ![i] =
                               Some([usuario |-> usuario, contrasenia |-> contrasenia])]
            /\ UNCHANGED patient_response
    /\ UNCHANGED firestore
    /\ InstanceFrame

\* create_user, lines 88-121, on instance i: the batch is committed and the id
\* returned, or the commit raises.
CreateUserCommit(i, fs) ==
    /\ creating[i] # None
    /\ IF fs = "raises"
       THEN /\ patient_response' = PatientAnswer("create_user", 500, << >>)
            /\ UNCHANGED firestore
       ELSE \E id \in NewDocumentIds(firestore) :
              /\ firestore' = BatchCommit(firestore, Get(creating[i]).usuario,
                                          Get(creating[i]).contrasenia, id)
              /\ patient_response' = PatientAnswer("create_user", 201, << id >>)
    /\ creating' = [creating EXCEPT ![i] = None]
    /\ InstanceFrame

\* update_sigsa_info_in_firestore, lines 141-151: a patient without a SIGSA
\* document gets one, numbered with the count of SIGSA documents plus one.
CreateSigsaDocument(col, patient_id) ==
    IF patient_id \in DOMAIN col THEN col
    ELSE Put(col, patient_id,
             [created |-> Timestamp,
              no_historia_clinica |-> Str(ToString(Cardinality(DOMAIN col) + 1))])

\* update_sigsa_info_in_firestore, lines 141-177
UpdateSigsa(col, patient_id, sigsa_info) ==
    SetMerge(CreateSigsaDocument(col, patient_id), patient_id,
             ModelDict(SigsaParams, [uid |-> Str(patient_id)] @@ sigsa_info))

\* update_medical_record_in_firestore, lines 190-211
UpdateMedicalRecord(col, patient_id, medical_record) ==
    SetMerge(col, patient_id,
             ModelDict(FichaMedicaParams, [uid |-> Str(patient_id)] @@ medical_record))

\* update_patient_info_in_firestore, lines 116-128
UpdatePatientInfo(col, patient_id, new_info) ==
    SetMerge(col, patient_id,
             ModelDict(PacienteParams,
                       [uid |-> Str(patient_id),
                        ref_sigsa |-> Ref("sigsa", patient_id),
                        ref_ficha_medica |-> Ref("fichas_medicas", patient_id)]
                       @@ new_info))

\* The three objects of an update_patient body, and the points of a request
\* at which Firestore can fail.
InfoFields == {"sigsa_info", "ficha_medica_info", "new_info"}
UpdateOutcomes == {"ok", "sigsa", "sigsa_merge", "fichas_medicas", "pacientes"}

\* PatientService.handle_request, lines 47-104: the three writes one after the
\* other.  `given` are the objects the body has: info.get(...) on a missing
\* one raises AttributeError, in update_sigsa_info_in_firestore after the
\* SIGSA document has been created.  `fs` names the point at which Firestore
\* fails, if any: 'sigsa' is the first read, 'sigsa_merge' the merge of the
\* SIGSA data.
UpdatePatient(patient_id, nombre, given, fs) ==
    /\ IF patient_id = ""
       THEN /\ patient_response' = PatientAnswer("update_patient", 400, << >>)
            /\ UNCHANGED firestore
       ELSE LET info == [nombre |-> Str(nombre)]
                f0 == [firestore EXCEPT !.sigsa = CreateSigsaDocument(@, patient_id)]
                f1 == [firestore EXCEPT !.sigsa = UpdateSigsa(@, patient_id, info)]
                f2 == [f1 EXCEPT !.fichas_medicas =
                                    UpdateMedicalRecord(@, patient_id, << >>)]
                f3 == [f2 EXCEPT !.pacientes = UpdatePatientInfo(@, patient_id, info)]
                done == IF fs = "sigsa" THEN 0
                        ELSE IF fs = "sigsa_merge" \/ "sigsa_info" \notin given THEN 1
                        ELSE IF fs = "fichas_medicas" \/ "ficha_medica_info" \notin given THEN 2
                        ELSE IF fs = "pacientes" \/ "new_info" \notin given THEN 3
                        ELSE 4
            IN  /\ firestore' = IF done = 0 THEN firestore
                                ELSE IF done = 1 THEN f0
                                ELSE IF done = 2 THEN f1
                                ELSE IF done = 3 THEN f2
                                ELSE f3
                /\ patient_response' =
                      PatientAnswer("update_patient", IF done = 4 THEN 200 ELSE 500, << >>)
    /\ PatientFrame

\* PatientService.get_all_patients, lines 411-475, and get_all_patients, lines
\* 513-530: one entry for every patient whose three documents the model
\* constructors accept; the others are skipped.
GetAllPatients(db) ==
    LET data(col, id) == IF id \in DOMAIN col
                         THEN ToJsonSafe(col[id]) ELSE [uid |-> Str(id)]
        withUid(d, id) == IF "uid" \in DOMAIN d THEN d ELSE [uid |-> Str(id)] @@ d
        patient(id) == [uid |-> Str(id)] @@ ToJsonSafe(db.pacientes[id])
        sigsa(id) == withUid(data(db.sigsa, id), id)
        ficha(id) == withUid(data(db.fichas_medicas, id), id)
    IN  { [uid |-> id,
           paciente |-> ModelDict(PacienteParams, patient(id)),
           sigsa |-> ModelDict(SigsaParams, sigsa(id)),
           ficha_medica |-> ModelDict(FichaMedicaParams, ficha(id))] :
            id \in { i \in DOMAIN db.pacientes :
                       /\ Accepts(PacienteParams, patient(i))
                       /\ Accepts(SigsaParams, sigsa(i))
                       /\ Accepts(FichaMedicaParams, ficha(i)) } }

\* listar_todos_pacientes (main.py, lines 86-126)
ListarTodosPacientes(fs) ==
    /\ IF fs = "raises"
       THEN patient_response' = PatientAnswer("listar_todos_pacientes", 500, << >>)
       ELSE LET patients == GetAllPatients(firestore)
            IN  patient_response' =
                   PatientAnswer("listar_todos_pacientes", 200,
                                 [patients |-> patients, total |-> Cardinality(patients)])
    /\ UNCHANGED firestore
    /\ PatientFrame

\* ------------------------------------------------------------ chat_agent_http

\* A JSON body as request.get_json(silent=True) returns it: nothing (no body,
\* not JSON), an array, or an object.  `length` is the number of elements or
\* keys; the keys of an object that matter are 'messages' and 'user_id', each
\* absent (None) or present with a string.
NoFields == [messages |-> None, user_id |-> None]
JsonObject(m, u) ==
    [kind |-> "object",
     length |-> (IF m = None THEN 0 ELSE 1) + (IF u = None THEN 0 ELSE 1),
     fields |-> [messages |-> m, user_id |-> u]]
JsonBodies ==
    { [kind |-> "none", length |-> 0, fields |-> NoFields] }
    \cup { [kind |-> "array", length |-> n, fields |-> NoFields] : n \in {0, 1} }
    \cup { JsonObject(m, u) :
             m \in {None} \cup { Some(x) : x \in Messages \cup {""} },
             u \in {None} \cup { Some(x) : x \in Users \cup {""} } }

Requests ==
    { [method |-> "POST", json |-> j] : j \in JsonBodies }
    \cup { [method |-> "GET", json |-> j] :
             j \in { JsonObject(Some(m), Some("u1")) : m \in Messages } }

\* Python's truth value of a JSON body and of dict.get(key)
JsonTruthy(j) == j.kind # "none" /\ j.length > 0
Truthy(o) == o # None /\ Get(o) # ""

\* chat_agent_http, lines 18-56: the checks before the orchestrator is built.
\* request_json.get exists on an object only: on an array it raises
\* AttributeError, outside the try block.
ValidateRequest(req) ==
    IF req.method # "POST" THEN "405"
    ELSE IF ~JsonTruthy(req.json) THEN "400 body"
    ELSE IF req.json.kind # "object" THEN "AttributeError"
    ELSE IF ~Truthy(req.json.fields.messages) \/ ~Truthy(req.json.fields.user_id)
         THEN "400 fields"
    ELSE "ok"

\* chat_agent_http, lines 19-27, 32-41, 47-56: the Response of a rejection
RejectResponse(v) ==
    IF v = "405"
    THEN [status |-> 405, success |-> FALSE,
          error |-> "Método no permitido. Solo se permiten solicitudes POST."]
    ELSE IF v = "400 body"
    THEN [status |-> 400, success |-> FALSE,
          error |-> "Petición inválida: No se encontró el cuerpo JSON"]
    ELSE [status |-> 400, success |-> FALSE,
          error |-> "Petición inválida: Faltan campos requeridos 'messages' o 'user_id'"]

\* chat_agent_http, lines 64-85: result["respuesta"] and result["historial"]
\* raise KeyError on an {error} payload, and the except branch answers 500.
ChatAgentResponseMutant(res, raised) ==
    [status |-> 200, success |-> TRUE]
ChatAgentResponse(res, raised) ==
    IF raised
    THEN [status |-> 500, success |-> FALSE, error |-> "exception"]
    ELSE IF "respuesta" \notin DOMAIN res
    THEN [status |-> 500, success |-> FALSE, error |-> "'respuesta'"]
    ELSE IF "historial" \notin DOMAIN res
    THEN [status |-> 500, success |-> FALSE, error |-> "'historial'"]
    ELSE [status |-> 200, success |-> TRUE,
          respuesta_asistente |-> res.respuesta,
          historial |-> res.historial]

\* The handler is free: no request is being served.
HandlerIdle == request = None

\* chat_agent_http, lines 18-56: a request that fails a check is answered at
\* once.
ChatAgentHttpRejects(req) ==
    /\ HandlerIdle
    /\ ValidateRequest(req) \in {"405", "400 body", "400 fields"}
    /\ response' = Some([request |-> req, call |-> 0, raised |-> FALSE,
                         body |-> RejectResponse(ValidateRequest(req))])
    /\ UNCHANGED << orquestadorVars, chroma, request, chroma_call, citasVars,
                    patientVars >>

\* chat_agent_http, lines 43-44: the exception of request_json.get leaves the
\* handler; the functions framework answers 500.
ChatAgentHttpRaises(req) ==
    /\ HandlerIdle
    /\ ValidateRequest(req) = "AttributeError"
    /\ response' = Some([request |-> req, call |-> 0, raised |-> TRUE,
                         body |-> [status |-> 500]])
    /\ UNCHANGED << orquestadorVars, chroma, request, chroma_call, citasVars,
                    patientVars >>

\* chat_agent_http, lines 58-64: the orchestrator is built from the body's
\* fields and generate_response starts.
ChatAgentHttpOrquestador(c, req) ==
    /\ HandlerIdle
    /\ ValidateRequest(req) = "ok"
    /\ \A d \in Calls : d < c => Terminal(d)
    /\ Orquestador(c, Get(req.json.fields.user_id), Get(req.json.fields.messages))
    /\ request' = Some([request |-> req, call |-> c])
    /\ response' = None
    /\ UNCHANGED << chroma_call, citasVars, patientVars >>

\* chat_agent_http, lines 64-85: asyncio.run returned (or raised) and the
\* result is mapped to a Response.
ChatAgentHttpResponds(c) ==
    /\ request # None
    /\ Get(request).call = c
    /\ Terminal(c)
    /\ response' = Some([request |-> Get(request).request, call |-> c,
                         raised |-> FALSE,
                         body |-> ChatAgentResponse(payload[c], escaped[c])])
    /\ request' = None
    /\ UNCHANGED << orquestadorVars, chroma, chroma_call, citasVars, patientVars >>

\* ------------------------------------------------------------ specifications

Step(c) ==
    \/ CreateHistorySession(c)
    \/ CreateHistorySessionRaises(c)
    \/ AssembleAgent(c)
    \/ AssembleAgentRaises(c)
    \/ RunnerPrepareInput(c)
    \/ RunnerSaveInput(c)
    \/ \E q \in Queries : RunnerToolCall(c, q)
    \/ RunnerFinalOutput(c)
    \/ RunnerRaises(c)
    \/ GetAllHistory(c)
    \/ GetAllHistoryRaises(c)

InProgress(c) == pc[c] # "idle" /\ ~Terminal(c)

\* Requests overlap in pairs: a request can arrive while another one is in
\* progress, and a third one waits until one of the two has returned.
OrquestadorOverlap(c, u, m) ==
    /\ \A d, e \in Calls : (InProgress(d) /\ InProgress(e)) => d = e
    /\ Orquestador(c, u, m)
    /\ UNCHANGED serviceVars

Next ==
    \/ \E c \in Calls, u \in Users, m \in Messages : OrquestadorOverlap(c, u, m)
    \/ \E c \in Calls : Step(c)

Spec == Init /\ [][Next]_vars

\* Requests submitted one after the other: the next one arrives only when
\* every earlier one has returned.
OrquestadorSeq(c, u, m) ==
    /\ \A d \in Calls : d < c => Terminal(d)
    /\ Orquestador(c, u, m)
    /\ UNCHANGED serviceVars

NextSeq ==
    \/ \E c \in Calls, u \in Users, m \in Messages : OrquestadorSeq(c, u, m)
    \/ \E c \in Calls : Step(c)

SpecSeq == Init /\ [][NextSeq]_vars

\* Requests served by chat_agent_http one at a time.
NextHttp ==
    \/ \E req \in Requests : ChatAgentHttpRejects(req)
    \/ \E req \in Requests : ChatAgentHttpRaises(req)
    \/ \E c \in Calls, req \in Requests : ChatAgentHttpOrquestador(c, req)
    \/ \E c \in Calls : Step(c)
    \/ \E c \in Calls : ChatAgentHttpResponds(c)

\* The deployed endpoint: the upload script has filled both collections.
InitHttp ==
    /\ Init
    /\ chroma = (TRANSTORNOS_DE_SALUD_MENTAL :> Docs(1))
                    @@ (EXAMENES_DE_SALUD_MENTAL :> Docs(MaxDocs))

SpecHttp == InitHttp /\ [][NextHttp]_vars

\* The upload script and maintenance code working on the knowledge store.
NextChroma ==
    \/ \E t \in UploadTexts, m \in UploadMetadatas, i \in UploadIds :
          UpsertTextsCall(t, EXAMENES_DE_SALUD_MENTAL, m, i)
    \/ \E t \in UploadTexts, m \in UploadMetadatas, i \in UploadIds :
          AddTextsCall(t, EXAMENES_DE_SALUD_MENTAL, m, i)
    \/ \E q \in Queries : QueryCall(EXAMENES_DE_SALUD_MENTAL, << q >>, RagNResults)
    \/ \E n \in CollectionNames : ResetCollectionCall(n)

InitChroma == Init /\ ~input_first

SpecChroma == InitChroma /\ [][NextChroma]_vars

\* The appointment endpoints, one request at a time.
NextCitas ==
    \/ \E uid \in {"", "p1"}, n \in EventNames \cup {""},
          gc \in ApiOutcomes, fs \in FirestoreOutcomes :
          CrearCitaConsultorio(uid, n, gc, fs)
    \/ \E id \in EventIds \cup {""}, n \in EventNames \cup {""},
          gc \in ApiOutcomes, fs \in FirestoreOutcomes :
          ActualizarCitaConsultorio(id, n, gc, fs)
    \/ \E id \in EventIds \cup {""}, gc \in ApiOutcomes, fs \in FirestoreOutcomes :
          EliminarCitaConsultorio(id, gc, fs)

InitServices == Init /\ ~input_first /\ chroma_up /\ chroma = (TRANSTORNOS_DE_SALUD_MENTAL :> Docs(1))

SpecCitas == InitServices /\ [][NextCitas]_vars

\* The user and patient endpoints, one request at a time.
NextPatients ==
    \/ \E u \in Usuarios \cup {""}, fs \in FirestoreOutcomes : CreateUser(u, "secreta", fs)
    \/ \E id \in Uids \cup {""}, given \in SUBSET InfoFields, fs \in UpdateOutcomes :
          UpdatePatient(id, "Ana", given, fs)
    \/ \E fs \in FirestoreOutcomes : ListarTodosPacientes(fs)

SpecPatients == InitServices /\ [][NextPatients]_vars

\* create_user requests served by several instances at the same time.
NextUsers ==
    \/ \E i \in 1..MaxInstances, u \in Usuarios \cup {""}, fs \in FirestoreOutcomes :
          CreateUserQuery(i, u, "secreta", fs)
    \/ \E i \in 1..MaxInstances, fs \in FirestoreOutcomes : CreateUserCommit(i, fs)

SpecUsers == InitServices /\ [][NextUsers]_vars

\* ------------------------------------------------------------ claims

\* The items of turn d among items, in their order.
TurnItems(items, d) == SelectSeq(items, LAMBDA r : r.turn = d)

IsPrefix(a, b) == Len(a) <= Len(b) /\ SubSeq(b, 1, Len(a)) = a

\* The stored log a call's session handle addresses.
Log(c) == ItemsOf(Get(history[c]))

\* C1: generate_response never lets an exception escape; a failed call returns
\* a payload whose only key is "error", a successful one a payload with exactly
\* "respuesta" and "historial".
C1_NoExceptionEscapes ==
    \A c \in Calls :
        /\ ~escaped[c]
        /\ pc[c] = "TurnFailed" => DOMAIN payload[c] = {"error"}
        /\ pc[c] = "TurnComplete" => DOMAIN payload[c] = {"respuesta", "historial"}
        /\ ~Terminal(c) => DOMAIN payload[c] = {}

\* One call failed inside Runner.run and another one succeeded.
C1_Witness ==
    \E c, d \in Calls :
        /\ pc[c] = "TurnFailed"
        /\ payload[c] = [error |-> "Error procesando la solicitud: runner"]
        /\ pc[d] = "TurnComplete"

\* C2: with the turns of a user submitted one after the other, the history
\* returned by turn c holds the records of the user's turns up to c and no
\* others, in submission order, each completed turn whole (user record first,
\* assistant record last); the history returned by an earlier turn is a prefix
\* of it, and it is a prefix of the stored log ever after.
C2_AppendOrder ==
    \A c \in Calls :
        pc[c] = "TurnComplete" =>
            LET h == payload[c].historial
            IN  /\ \A i, j \in 1..Len(h) : i < j => h[i].turn <= h[j].turn
                /\ \A i \in 1..Len(h) :
                      h[i].turn <= c /\ user_id[h[i].turn] = user_id[c]
                /\ IsPrefix(h, Log(c))
                /\ \A d \in 1..c : TurnItems(h, d) = TurnItems(Log(c), d)
                /\ \A d \in 1..c :
                      (pc[d] = "TurnComplete" /\ user_id[d] = user_id[c]) =>
                          LET t == TurnItems(h, d)
                          IN  /\ IsPrefix(payload[d].historial, h)
                              /\ Len(t) >= 2
                              /\ t[1] = Item("user", message[d], d)
                              /\ t[Len(t)] = Item("assistant", payload[d].respuesta, d)

\* Two completed turns of one user, the second one's history longer than the
\* first one's.
C2_Witness ==
    \E c, d \in Calls :
        /\ d < c
        /\ user_id[c] = user_id[d]
        /\ pc[c] = "TurnComplete"
        /\ pc[d] = "TurnComplete"
        /\ Len(payload[d].historial) >= 2
        /\ Len(payload[c].historial) >= Len(payload[d].historial) + 2

\* C3: a success payload's "historial" holds the turn just completed, the
\* user message first and the returned reply last, and these records are in
\* the stored log.
C3_ReturnedHistoryHasTurn ==
    \A c \in Calls :
        pc[c] = "TurnComplete" =>
            LET t == TurnItems(payload[c].historial, c)
            IN  /\ Len(t) >= 2
                /\ t[1] = Item("user", message[c], c)
                /\ t[Len(t)] = Item("assistant", payload[c].respuesta, c)
                /\ TurnItems(Log(c), c) = t

\* A completed turn that used the tool and whose returned history also holds
\* records of another turn.
C3_Witness ==
    \E c \in Calls :
        /\ pc[c] = "TurnComplete"
        /\ Len(TurnItems(payload[c].historial, c)) = 3
        /\ Len(payload[c].historial) > 3

\* C4: the history writes of two requests of one user never interleave: the
\* records of a turn are contiguous in the log, and the history a turn's
\* runtime read holds all of another turn's records or none of them.
C4_NoInterleaving ==
    /\ \A h \in DOMAIN conversations :
          LET s == conversations[h]
          IN  \A i, j, k \in 1..Len(s) :
                 (i < j /\ j < k /\ s[i].turn = s[k].turn) => s[j].turn = s[i].turn
    /\ \A c, d \in Calls :
          (c # d /\ input[c] # None) =>
              LET seen == TurnItems(Get(input[c]), d)
              IN  seen = << >> \/ (Terminal(d) /\ seen = TurnItems(Log(c), d))

C6_SessionIdempotent ==
    /\ \A c \in Calls :
          history[c] # None => Get(history[c]).session_id = "session_" \o user_id[c]
    /\ \A c, d \in Calls :
          (history[c] # None /\ history[d] # None /\ user_id[c] = user_id[d]) =>
              /\ history[c] = history[d]
              /\ Log(c) = Log(d)
    /\ \A h \in DOMAIN conversations : \A i \in 1..Len(conversations[h]) :
          Get(history[conversations[h][i].turn]) = h
    /\ \A h1, h2 \in DOMAIN conversations :
          h1.session_id = h2.session_id => h1 = h2

\* A first turn failed after its session was created and its input written;
\* a later call of the same user obtained the session again and returned a
\* history holding the failed turn's record.
C6_Witness ==
    \E c, d \in Calls :
        /\ c < d
        /\ user_id[c] = user_id[d]
        /\ pc[c] = "TurnFailed"
        /\ history[c] # None
        /\ pc[d] = "TurnComplete"
        /\ TurnItems(payload[d].historial, c) # << >>

\* C7: when the store query yields zero documents, the tool returns exactly
\* the "no relevant information" sentinel.
C7_EmptyGivesSentinel ==
    \A c \in Calls :
        (/\ rag[c] # None
         /\ ~Get(rag[c]).raised
         /\ \A q \in 1..Len(Get(rag[c]).documents) : Get(rag[c]).documents[q] = << >>) =>
            tool_out[c] = Some("No se encontró información relevante.")

\* C8: the tool queries the screenings collection with one query text and
\* n_results = 3, and, given one or more documents, returns the header
\* followed by the at most three documents, joined by a blank line, in the
\* order of the store's result.
C8_FoundFormat ==
    \A c \in Calls :
        (rag[c] # None /\ ~Get(rag[c]).raised) =>
            LET r == Get(rag[c])
                d == r.documents[1]
            IN  /\ r.query.name_collection = "mental_health_screenings"
                /\ Len(r.query.query_texts) = 1
                /\ r.query.n_results = 3
                /\ Len(r.documents) = 1
                /\ Len(d) <= 3
                /\ Len(d) = 1 =>
                      tool_out[c] = Some("Información encontrada:\n" \o d[1])
                /\ Len(d) = 2 =>
                      tool_out[c] = Some("Información encontrada:\n"
                                         \o d[1] \o "\n\n" \o d[2])
                /\ Len(d) = 3 =>
                      tool_out[c] = Some("Información encontrada:\n"
                                         \o d[1] \o "\n\n" \o d[2] \o "\n\n" \o d[3])

\* The store held more than three documents and the tool returned three.
C8_Witness ==
    \E c \in Calls :
        /\ rag[c] # None
        /\ ~Get(rag[c]).raised
        /\ Cardinality(chroma[EXAMENES_DE_SALUD_MENTAL]) > 3
        /\ Len(Get(rag[c]).documents[1]) = 3
        /\ tool_out[c] # None

\* C9: an invocation of the retrieval tool leaves the knowledge store as it
\* was.
C9_ToolLeavesStoreUnchanged ==
    [][tool_calls' > tool_calls => chroma' = chroma]_vars

\* C10: a turn in which the tool was invoked while the store was unavailable
\* ends with an {error} payload, and leaves no partial record of itself in
\* the history.
C10_StoreDownGivesError ==
    \A c \in Calls :
        (/\ Terminal(c)
         /\ history[c] # None
         /\ \E i \in 1..Len(Log(c)) :
               Log(c)[i] = Item("tool", ToolErrorText, c)) =>
            /\ DOMAIN payload[c] = {"error"}
            /\ LET t == TurnItems(Log(c), c)
               IN  t[1].role = "user" /\ t[Len(t)].role = "assistant"

\* C11: the chat endpoint answers 200 with success = true exactly when the
\* orchestrator returned a success payload, and 500 with success = false
\* exactly when it returned an {error} payload.
C11_StatusFollowsPayload ==
    (response # None /\ Get(response).call # 0) =>
        LET r == Get(response)
        IN  /\ ~r.raised
            /\ r.body.status \in {200, 500}
            /\ (r.body.status = 200) <=> r.body.success
            /\ (r.body.status = 200) <=>
                   (DOMAIN payload[r.call] = {"respuesta", "historial"})
            /\ (r.body.status = 500) <=> (DOMAIN payload[r.call] = {"error"})
            /\ r.body.status = 200 =>
                   /\ r.body.respuesta_asistente = payload[r.call].respuesta
                   /\ r.body.historial = payload[r.call].historial

\* A turn failed inside the runtime and the endpoint answered 500.
C11_Witness ==
    /\ response # None
    /\ Get(response).call # 0
    /\ Get(response).body.status = 500
    /\ pc[Get(response).call] = "TurnFailed"
    /\ conversations # << >>

\* C12: a request that is not a POST whose JSON body has non-empty 'messages'
\* and 'user_id' is answered with 405 or 400, and an orchestrator exists only
\* for a request that is one.
C12_InvalidRejected ==
    /\ response # None =>
          LET r == Get(response)
              f == r.request.json.fields
              ok == /\ r.request.method = "POST"
                    /\ r.request.json.kind = "object"
                    /\ Truthy(f.messages)
                    /\ Truthy(f.user_id)
          IN  /\ ok <=> r.call # 0
              /\ ~ok => (~r.raised /\ r.body.status \in {400, 405})
    /\ request # None =>
          LET q == Get(request)
          IN  /\ q.request.method = "POST"
              /\ q.request.json.fields.messages = Some(message[q.call])
              /\ q.request.json.fields.user_id = Some(user_id[q.call])
              /\ message[q.call] # ""
              /\ user_id[q.call] # ""

\* C13: upserting a stored id replaces its text and metadata and adds no
\* second entry: every collection holds one document per id; after an upsert
\* each upserted id carries the text and metadata of that upsert and the
\* documents of the other ids are as they were; a query returns only texts
\* that are stored now.
C13_UpsertReplaces ==
    /\ [](/\ \A n \in DOMAIN chroma : \A d, e \in chroma[n] : d.id = e.id => d = e
          /\ chroma_call # None =>
                LET k == Get(chroma_call)
                IN  /\ (k.op = "upsert_texts" /\ ~k.raised /\ k.texts # << >>) =>
                           \A i \in 1..Len(k.ids) :
                               { d \in chroma[k.name_collection] : d.id = k.ids[i] }
                                 = { [id |-> k.ids[i], document |-> k.texts[i],
                                      metadata |-> k.metadatas[i]] }
                    /\ (k.op = "query" /\ ~k.raised) =>
                           \A i \in 1..Len(k.documents[1]) :
                               \E d \in chroma[k.name_collection] :
                                   d.document = k.documents[1][i])
    /\ [][(/\ chroma_call' # None
           /\ Get(chroma_call').op = "upsert_texts"
           /\ ~Get(chroma_call').raised
           /\ Get(chroma_call').name_collection \in DOMAIN chroma) =>
              LET k == Get(chroma_call')
              IN  { d \in chroma'[k.name_collection] : d.id \notin Range(k.ids) }
                    = { d \in chroma[k.name_collection] : d.id \notin Range(k.ids) }]_vars

\* The two seeded documents with ids 1 and 2 were replaced by one upsert, and
\* the collection has as many documents as before.
C13_Witness ==
    /\ chroma_call # None
    /\ Get(chroma_call).op = "upsert_texts"
    /\ ~Get(chroma_call).raised
    /\ Get(chroma_call).ids = << 1, 2 >>
    /\ Get(chroma_call).texts = << "t1", "t2" >>
    /\ EXAMENES_DE_SALUD_MENTAL \in DOMAIN chroma
    /\ Cardinality(chroma[EXAMENES_DE_SALUD_MENTAL]) = MaxDocs
    /\ [id |-> 1, document |-> "t1", metadata |-> UploadMetadata]
          \in chroma[EXAMENES_DE_SALUD_MENTAL]

\* C14: an upsert_texts call whose texts, metadatas and ids are not all of
\* one length fails; it never returns normally.
C14_UnequalLengthsFail ==
    chroma_call # None =>
        LET k == Get(chroma_call)
        IN  (/\ k.op = "upsert_texts"
             /\ ~(Len(k.texts) = Len(k.ids) /\ Len(k.metadatas) = Len(k.ids))) =>
                k.raised

\* C15: upsert_texts and add_texts called with no texts return normally,
\* leave the store as it was and do not ask for a client.
C15_EmptyIsNoOp ==
    [][(/\ chroma_call' # None
        /\ Get(chroma_call').op \in {"upsert_texts", "add_texts"}
        /\ Get(chroma_call').texts = << >>) =>
           /\ ~Get(chroma_call').raised
           /\ ~Get(chroma_call').client
           /\ chroma' = chroma]_vars

\* upsert_texts was called with no texts and with ids on a store without the
\* collection, returned, and the collection is still not there.
C15_Witness ==
    /\ chroma_call # None
    /\ Get(chroma_call).op = "upsert_texts"
    /\ Get(chroma_call).texts = << >>
    /\ Get(chroma_call).ids # << >>
    /\ ~Get(chroma_call).raised
    /\ EXAMENES_DE_SALUD_MENTAL \notin DOMAIN chroma

\* C16: with the store reachable, reset_collection(name) returns whatever the
\* store held (the collection populated, empty or absent), and then the
\* collection exists and is empty.
C16_ResetLeavesEmpty ==
    (chroma_call # None /\ Get(chroma_call).op = "reset_collection" /\ chroma_up) =>
        /\ ~Get(chroma_call).raised
        /\ Get(chroma_call).name_collection \in DOMAIN chroma
        /\ chroma[Get(chroma_call).name_collection] = {}

\* C17: every assembled principal agent has the same four responders in the
\* same order (responses, colloquial, disorders, screenings); the first one is
\* given as it is (the positional default) and each of the other three is
\* wrapped as a handoff.
C17_FixedHandoffs ==
    \A c \in Calls :
        agent[c] # None =>
            LET h == Get(agent[c]).handoffs
            IN  /\ Len(h) = 4
                /\ [i \in 1..4 |-> h[i].agent] =
                      << "agente_de_respuestas_salud_mental",
                         "agente_de_salud_mental_coloquial",
                         "agente_de_transtornos_salud_mental",
                         "AgenteDeExamenesDeSaludMental" >>
                /\ \A i \in 1..4 : h[i].handoff <=> i # 1
                /\ \A d \in Calls : agent[d] # None => agent[d] = agent[c]

\* Two calls of different users have assembled their agents, the first one
\* after a completed turn that used the tool.
C17_Witness ==
    \E c, d \in Calls :
        /\ user_id[c] # user_id[d]
        /\ pc[c] = "TurnComplete"
        /\ agent[c] # None
        /\ agent[d] # None
        /\ tool_calls > 0

\* C18: after any sequence of appointment requests the calendar and the
\* 'citas' collection hold the same ids, and a delete answered with success
\* has removed the appointment from both.
C18_CalendarInSync ==
    /\ DOMAIN citas = DOMAIN calendar
    /\ (/\ cita_response # None
        /\ Get(cita_response).op = "eliminar_cita"
        /\ Get(cita_response).success) =>
           /\ Get(cita_response).id_evento \notin DOMAIN calendar
           /\ Get(cita_response).id_evento \notin DOMAIN citas

\* C19: an update of an appointment that has no document in 'citas', with the
\* calendar and Firestore answering, fails with 'El evento no existe en
\* Firestore.' and creates no document.
C19_UpdateNeverCreates ==
    [][(/\ cita_response' # None
        /\ Get(cita_response').op = "actualizar_cita"
        /\ Get(cita_response').id_evento \notin DOMAIN citas
        /\ Get(cita_response').error \notin {"Faltan campos requeridos.", "calendar", "firestore"}) =>
           /\ citas' = citas
           /\ ~Get(cita_response').success
           /\ Get(cita_response').error = "El evento no existe en Firestore."]_vars

\* C20: listar_todos_pacientes returns every patient: one entry per document
\* of 'pacientes', and 'total' is the number of documents.
C20_ListsEveryPatient ==
    (/\ patient_response # None
     /\ Get(patient_response).op = "listar_todos_pacientes"
     /\ Get(patient_response).success) =>
        LET r == Get(patient_response).data
        IN  /\ { e.uid : e \in r.patients } = DOMAIN firestore.pacientes
            /\ r.total = Cardinality(DOMAIN firestore.pacientes)

\* C21: create_user writes its three documents together.  A request answered
\* 201 adds one document with the same new id to 'users', 'pacientes' and
\* 'threads' and returns that id; a request answered otherwise writes nothing;
\* so every user id is also a patient id and a thread id.
C21_CreateUserAtomic ==
    /\ [](/\ DOMAIN firestore.users = DOMAIN firestore.threads
          /\ DOMAIN firestore.users \subseteq DOMAIN firestore.pacientes)
    /\ [][(patient_response' # None /\ Get(patient_response').op = "create_user") =>
            LET r == Get(patient_response')
                new(col) == DOMAIN firestore'[col] \ DOMAIN firestore[col]
            IN  IF r.status = 201
                THEN \E id \in Uids :
                        /\ r.data = << id >>
                        /\ \A col \in {"users", "pacientes", "threads"} : new(col) = {id}
                        /\ firestore'.users[id].ref_paciente = Ref("pacientes", id)
                        /\ firestore'.pacientes[id].thread = Ref("threads", id)
                        /\ firestore'.threads[id].ref_paciente = Ref("pacientes", id)
                ELSE firestore' = firestore]_vars

\* A second user was created while the first one's documents are stored.
C21_Witness ==
    /\ patient_response # None
    /\ Get(patient_response).op = "create_user"
    /\ Get(patient_response).status = 201
    /\ Cardinality(DOMAIN firestore.users) = 2
    /\ DOMAIN firestore.users = DOMAIN firestore.threads

\* The steps of generate_response in the order of its statements, and the
\* failure that ends a call that has not ended.
StepOrder ==
    { << "idle", "NoSession" >>, << "NoSession", "SessionReady" >>,
      << "SessionReady", "AgentAssembled" >>, << "AgentAssembled", "TurnRunning" >>,
      << "TurnRunning", "TurnComplete" >> }
    \cup { << s, "TurnFailed" >> :
             s \in {"NoSession", "SessionReady", "AgentAssembled", "TurnRunning"} }

\* C22: a call goes through NoSession, SessionReady, AgentAssembled,
\* TurnRunning, TurnComplete in this order or ends in TurnFailed from a step
\* that has not ended; the runtime runs only with the session obtained and
\* the agent assembled; the history is re-read only after the runtime
\* returned; TurnComplete and TurnFailed are final and a call's payload is of
\* one of the two kinds.
C22_StepOrder ==
    /\ [](\A c \in Calls :
            /\ pc[c] \in {"AgentAssembled", "TurnRunning"} => history[c] # None
            /\ pc[c] = "TurnRunning" => agent[c] # None
            /\ (input[c] # None \/ saved_input[c] \/ new_items[c] # << >>
                    \/ result[c] # None) => pc[c] = "TurnRunning"
            /\ (pc[c] = "TurnComplete") <=> (DOMAIN payload[c] = {"respuesta", "historial"})
            /\ (pc[c] = "TurnFailed") <=> (DOMAIN payload[c] = {"error"}))
    /\ [][\A c \in Calls :
            /\ pc'[c] # pc[c] => << pc[c], pc'[c] >> \in StepOrder
            /\ (pc'[c] = "TurnComplete" /\ pc[c] # "TurnComplete") => result[c] # None
            /\ Terminal(c) => payload'[c] = payload[c]]_vars

\* One call ended in TurnFailed after its runtime had written to the session
\* and another ended in TurnComplete.
C22_Witness ==
    \E c, d \in Calls :
        /\ pc[c] = "TurnFailed"
        /\ history[c] # None
        /\ agent[c] # None
        /\ \E i \in 1..Len(Log(c)) : Log(c)[i].turn = c
        /\ pc[d] = "TurnComplete"

\* C23: a failure of the knowledge store reaches the caller of the retrieval
\* tool as an exception: when the store query of a tool invocation raised,
\* the runtime was handed no tool output, and in no case the text for "no
\* information found" or an "information found" header with nothing after it.
C23_StoreFailureRaised ==
    \A c \in Calls :
        (rag[c] # None /\ Get(rag[c]).raised) =>
            /\ tool_out[c] = None
            /\ tool_out[c] # None =>
                   Get(tool_out[c]) \notin {FormatResults(<< >>), FormatResults(<< << >> >>)}

\* C24: once a turn has ended, in TurnComplete or in TurnFailed, the stored
\* history holds either nothing of it or all of it: its user record first,
\* its assistant record last, and no record of another turn in between.
C24_AppendAtomic ==
    \A c \in Calls :
        (Terminal(c) /\ history[c] # None) =>
            LET t == TurnItems(Log(c), c)
                at == { i \in 1..Len(Log(c)) : Log(c)[i].turn = c }
            IN  t # << >> =>
                   /\ t[1].role = "user"
                   /\ t[Len(t)].role = "assistant"
                   /\ \A i, j \in at : \A k \in i..j : k \in at

C26_ErrorTextIsPayloadError ==
    (response # None /\ Get(response).call # 0) =>
        LET r == Get(response)
        IN  "error" \in DOMAIN payload[r.call] =>
               /\ "error" \in DOMAIN r.body
               /\ r.body.error = payload[r.call].error

\* C27: user names are unique whatever the interleaving of create_user
\* requests: no two documents of 'users' have the same 'usuario'.
C27_UserNamesUnique ==
    \A a, b \in DOMAIN firestore.users :
        firestore.users[a].usuario = firestore.users[b].usuario => a = b

\* C28: after a completed update_patient request every SIGSA document has a
\* no_historia_clinica that is not null, and no two SIGSA documents have the
\* same one.
C28_HistoriaClinicaKept ==
    (/\ patient_response # None
     /\ Get(patient_response).op = "update_patient"
     /\ Get(patient_response).status = 200) =>
        \A a \in DOMAIN firestore.sigsa :
            /\ firestore.sigsa[a].no_historia_clinica # Null
            /\ \A b \in DOMAIN firestore.sigsa :
                  firestore.sigsa[a].no_historia_clinica =
                      firestore.sigsa[b].no_historia_clinica => a = b

\* C29: an update_patient request answered with success changes, in a patient
\* document, only nombre, apellido, fecha_consulta, estado_paciente, ref_sigsa
\* and ref_ficha_medica (and writes the document's own uid): every other
\* field the document had keeps its value.
C29_OtherFieldsKept ==
    [][(/\ patient_response' # None
        /\ Get(patient_response').op = "update_patient"
        /\ Get(patient_response').status = 200) =>
          \A id \in DOMAIN firestore.pacientes :
             \A k \in DOMAIN firestore.pacientes[id] \
                       {"uid", "nombre", "apellido", "fecha_consulta",
                        "estado_paciente", "ref_sigsa", "ref_ficha_medica"} :
                /\ k \in DOMAIN firestore'.pacientes[id]
                /\ firestore'.pacientes[id][k] = firestore.pacientes[id][k]]_vars

\* C30: an update_patient request answered with an error leaves 'sigsa',
\* 'fichas_medicas' and 'pacientes' as they were.
C30_FailedUpdateWritesNothing ==
    [][(/\ patient_response' # None
        /\ Get(patient_response').op = "update_patient"
        /\ Get(patient_response').status \in {400, 500}) =>
          /\ firestore'.sigsa = firestore.sigsa
          /\ firestore'.fichas_medicas = firestore.fichas_medicas
          /\ firestore'.pacientes = firestore.pacientes]_vars

====
